---- MODULE Spec2Model ----
(***************************************************************************)
(* Model of four pieces of the course repository:                          *)
(*   - the intent-routing LangGraph workflow of course-01 (agent.py),      *)
(*   - the conversation-history formatting inside classify_intent,         *)
(*   - the synthetic generators get_weather_forecast and                   *)
(*     get_electricity_prices of course-02,                                *)
(*   - the CultPass support tools of course-03.                            *)
(***************************************************************************)
EXTENDS Integers, Sequences, FiniteSets, TLC

VARIABLES
    pc,                    \* position of the thread: "idle", a node name, or "END"
    runs,                  \* number of invocations started on the thread
    user_input,            \* AgentState.user_input
    messages,              \* AgentState.messages (add_messages reducer)
    intent,                \* AgentState.intent (the intent_type of the UserIntent)
    next_step,             \* AgentState.next_step
    conversation_summary,  \* AgentState.conversation_summary
    active_documents,      \* AgentState.active_documents
    current_response,      \* AgentState.current_response
    tools_used,            \* AgentState.tools_used
    actions_taken,         \* AgentState.actions_taken (operator.add reducer)
    conversation_history,  \* local of classify_intent: the text put in the prompt
    executed,              \* history: nodes executed so far in the current run
    start_actions,         \* history: actions_taken when the current run started
    written,               \* history: what the nodes of the current run returned
    forecast,              \* value returned by the last get_weather_forecast call
    days_arg,              \* the days argument of that call
    solar_log,             \* history: solar_factor computed for each (day, hour)
    prices,                \* value returned by the last get_electricity_prices call
    cultpass,              \* contents of data/external/cultpass.db
    udahub,                \* contents of data/core/udahub.db
    last_call,             \* history: name of the support tool called last
    tool_result            \* value returned by that call

graphVars == <<pc, runs, user_input, messages, intent, next_step,
               conversation_summary, active_documents, current_response,
               tools_used, actions_taken, conversation_history,
               executed, start_actions, written>>
weatherVars == <<forecast, days_arg, solar_log, prices>>
toolVars == <<cultpass, udahub, last_call, tool_result>>
vars == <<graphVars, weatherVars, toolVars>>

----------------------------------------------------------------------------
(* Bounds *)

MaxRuns == 3        \* invocations of the compiled workflow on one thread
MaxHist == 11       \* longest message list given to the history formatter

----------------------------------------------------------------------------
(* Values *)

Unset == "<unset>"
END == "END"

AgentNodes == {"qa_agent", "summarization_agent", "calculation_agent"}
Nodes == {"classify_intent", "update_memory"} \cup AgentNodes

\* The categories the classification prompt offers to the LLM.
IntentTypes == {"qa", "summarization", "calculation", "unknown"}

UserInputs == {"question"}
ToolNames == {"calculator"}
\* The UpdateMemoryResponse values the LLM may return.
MemoryResponses ==
    {[summary |-> "summary_a", document_ids |-> <<>>],
     [summary |-> "summary_b", document_ids |-> <<"doc1">>]}

Msg(i, t, c, n) == [id |-> i, type |-> t, content |-> c, name |-> n]

UnsetResponse == [messages |-> <<>>, structured_response |-> Unset]

\* No node of the run has returned anything yet.
NothingWritten ==
    [intent |-> Unset, next_step |-> Unset, conversation_summary |-> Unset,
     active_documents |-> <<>>, current_response |-> UnsetResponse,
     tools_used |-> <<>>]

----------------------------------------------------------------------------
(* Reducers of AgentState *)

\* a channel without the reducer: the update replaces the stored list
OperatorAddOverwrite(left, right) == right

\* operator.add on lists
OperatorAdd(left, right) == left \o right

\* a channel that ignores the update and keeps the checkpointed value
LastValueKeepOld(old, new) == old

\* a key without a reducer: the update replaces the stored value
LastValue(old, new) == new

\* add_messages: a message whose id is already in the list replaces the
\* stored one in place, any other message is appended (the ids inside one
\* update are distinct).
AddMessages(left, right) ==
    LET known(m) == \E i \in 1..Len(left) : left[i].id = m.id
        update(i) == CHOOSE j \in 1..Len(right) : right[j].id = left[i].id
    IN  [i \in 1..Len(left) |->
            IF \E j \in 1..Len(right) : right[j].id = left[i].id
            THEN right[update(i)] ELSE left[i]]
        \o SelectSeq(right, LAMBDA m : ~known(m))

----------------------------------------------------------------------------
(* classify_intent *)

\* history[:] in place of history[-10:]
LastMessagesAll(history, n) == history

\* history[-n:]
LastMessages(history, n) ==
    IF Len(history) <= n THEN history
    ELSE SubSeq(history, Len(history) - n + 1, Len(history))

HistoryLine(msg) ==
    IF msg.type = "human" THEN <<"User: ", msg.content, "\n">>
    ELSE IF msg.type = "ai" THEN <<"Assistant: ", msg.content, "\n">>
    ELSE <<>>

RECURSIVE FormatLines(_, _)
\* the for loop over the selected messages, from the i-th one on
FormatLines(msgs, i) ==
    IF i > Len(msgs) THEN <<>>
    ELSE HistoryLine(msgs[i]) \o FormatLines(msgs, i + 1)

\* The text is a sequence of string pieces, concatenated in order.
ConversationHistory(history) ==
    IF history # <<>>
    THEN FormatLines(LastMessages(history, 10), 1)
    ELSE <<"No previous conversation.">>

\* the else branch ending the run instead of falling back to Q&A
NextStepForNoFallback(intent_type) ==
    IF intent_type = "qa" THEN "qa_agent"
    ELSE IF intent_type = "summarization" THEN "summarization_agent"
    ELSE IF intent_type = "calculation" THEN "calculation_agent"
    ELSE "end"

NextStepFor(intent_type) ==
    IF intent_type = "qa" THEN "qa_agent"
    ELSE IF intent_type = "summarization" THEN "summarization_agent"
    ELSE IF intent_type = "calculation" THEN "calculation_agent"
    ELSE "qa_agent"

\* should_continue followed by the mapping of add_conditional_edges
should_continue(step) == IF step = Unset THEN "end" ELSE step

RouterTargets ==
    [qa_agent |-> "qa_agent",
     summarization_agent |-> "summarization_agent",
     calculation_agent |-> "calculation_agent",
     end |-> END]

AfterClassify(step) == RouterTargets[should_continue(step)]

\* the agents wired straight to END, bypassing update_memory
EdgeTargetSkipMemory(node) == END

\* update_memory wired back to the entry point
EdgeTargetRetry(node) ==
    IF node \in AgentNodes THEN "update_memory" ELSE "classify_intent"

\* add_edge: the fixed successor of a node
EdgeTarget(node) == IF node \in AgentNodes THEN "update_memory" ELSE END

----------------------------------------------------------------------------
(* Agents *)

SystemPromptFor(intent_type) ==
    IF intent_type = "qa" THEN "QA_SYSTEM_PROMPT"
    ELSE IF intent_type = "summarization" THEN "SUMMARIZATION_SYSTEM_PROMPT"
    ELSE IF intent_type = "calculation" THEN "CALCULATION_SYSTEM_PROMPT"
    ELSE "QA_SYSTEM_PROMPT"

\* get_chat_prompt_template(...).invoke(...).to_messages(): system prompt,
\* chat history, then the user input.  The two new messages get fresh ids.
ChatPromptMessages(intent_type, input, chat_history) ==
    LET n == Len(chat_history)
    IN  <<Msg(n + 1, "system", SystemPromptFor(intent_type), "")>>
        \o chat_history
        \o <<Msg(n + 2, "human", input, "")>>

\* What the ReAct agent adds to its input: a final answer, preceded by one
\* tool round trip for each tool it called.
ToolRounds(called, firstId) ==
    [k \in 1..(2 * Len(called)) |->
        IF k % 2 = 1
        THEN Msg(firstId + k - 1, "ai", "tool_call", "")
        ELSE Msg(firstId + k - 1, "tool", "tool_result", called[k \div 2])]

ReactOutput(called, firstId) ==
    ToolRounds(called, firstId)
    \o <<Msg(firstId + 2 * Len(called), "ai", "answer", "")>>

\* [t.name for t in messages if isinstance(t, ToolMessage)]
ToolMessageNames(msgs) ==
    LET toolMsgs == SelectSeq(msgs, LAMBDA m : m.type = "tool")
    IN  [k \in 1..Len(toolMsgs) |-> toolMsgs[k].name]

\* invoke_react_agent: the result and the names of its ToolMessages
InvokeReactAgent(schema, msgs, called) ==
    LET out == msgs \o ReactOutput(called, Len(msgs) + 1)
    IN  [result |-> [messages |-> out, structured_response |-> schema],
         tools_used |-> ToolMessageNames(out)]

ToolCalls == {<<>>} \cup {<<t>> : t \in ToolNames}

----------------------------------------------------------------------------
(* The thread of the compiled workflow *)

\* Rows of the two SQLite databases the support tools open.  A table is
\* the sequence of its rows in insertion order.
NoneValue == "None"

CultpassRows ==
    [users |-> <<[user_id |-> "u1", full_name |-> "Ana", email |-> "ana@x.org",
                  is_blocked |-> FALSE]>>,
     subscriptions |-> <<[subscription_id |-> "s1", user_id |-> "u1",
                          status |-> "active", tier |-> "basic",
                          monthly_quota |-> 4]>>,
     reservations |-> <<[reservation_id |-> "r1", user_id |-> "u1",
                         experience_id |-> "e2", status |-> "reserved"],
                        [reservation_id |-> "r2", user_id |-> "u1",
                         experience_id |-> "e404", status |-> "cancelled"]>>,
     experiences |-> <<[experience_id |-> "e1", title |-> "Samba night",
                        location |-> "Rio", when |-> 3, slots_available |-> 2,
                        is_premium |-> TRUE],
                       [experience_id |-> "e2", title |-> "Museum tour",
                        location |-> "Sao Paulo", when |-> 1,
                        slots_available |-> 5, is_premium |-> FALSE],
                       [experience_id |-> "e3", title |-> "Jazz club",
                        location |-> "Sao Paulo", when |-> 2,
                        slots_available |-> 0, is_premium |-> FALSE]>>]

UdahubRows ==
    [users |-> <<[user_id |-> "hu1", user_name |-> "Ana",
                  external_user_id |-> "u1"]>>,
     tickets |-> <<[ticket_id |-> "t1", user_id |-> "hu1", channel |-> "chat"],
                   [ticket_id |-> "t2", user_id |-> "hu404", channel |-> "mail"]>>,
     ticket_metadata |-> <<[ticket_id |-> "t1", status |-> "open",
                            main_issue_type |-> NoneValue, tags |-> "login"]>>,
     ticket_messages |-> <<[message_id |-> 1, ticket_id |-> "t1",
                            role |-> "user", content |-> "cannot log in"]>>,
     knowledge |-> <<[article_id |-> "a1", account_id |-> "cultpass",
                      title |-> {"reset", "password"},
                      content |-> {"open", "settings", "reset"},
                      tags |-> {"login", "password"}],
                     [article_id |-> "a2", account_id |-> "cultpass",
                      title |-> {"login", "help"},
                      content |-> {"password", "login"},
                      tags |-> {"login"}],
                     [article_id |-> "a3", account_id |-> "other",
                      title |-> {"password"}, content |-> {"password"},
                      tags |-> {"password"}]>>]

ToolsIdle ==
    /\ cultpass = CultpassRows
    /\ udahub = UdahubRows
    /\ last_call = "none"
    /\ tool_result = [none |-> TRUE]

WeatherIdle ==
    /\ forecast = [location |-> "", forecast_days |-> 0,
                   current |-> [condition |-> Unset, temperature_c |-> 0],
                   hourly |-> <<>>, daily |-> <<>>]
    /\ days_arg = 0
    /\ solar_log = <<>>
    /\ prices = [date |-> Unset, hourly_rates |-> <<>>]

Init ==
    /\ pc = "idle"
    /\ runs = 0
    /\ user_input = Unset
    /\ messages = <<>>
    /\ intent = Unset
    /\ next_step = Unset
    /\ conversation_summary = Unset
    /\ active_documents = <<>>
    /\ current_response = UnsetResponse
    /\ tools_used = <<>>
    /\ actions_taken = <<>>
    /\ conversation_history = <<>>
    /\ executed = <<>>
    /\ start_actions = <<>>
    /\ written = NothingWritten
    /\ WeatherIdle
    /\ ToolsIdle

\* workflow.invoke({"user_input": input}, config) on the thread: the input is
\* written to its channel, every other channel keeps the checkpointed value,
\* and the entry point is scheduled.
Invoke(input) ==
    /\ pc \in {"idle", END}
    /\ runs < MaxRuns
    /\ runs' = runs + 1
    /\ user_input' = input
    /\ start_actions' = actions_taken
    /\ executed' = <<>>
    /\ written' = NothingWritten
    /\ pc' = "classify_intent"
    /\ UNCHANGED <<messages, intent, next_step, conversation_summary,
                   active_documents, current_response, tools_used,
                   actions_taken, conversation_history>>
    /\ UNCHANGED <<weatherVars, toolVars>>

classify_intent(intent_type) ==
    /\ pc = "classify_intent"
    /\ conversation_history' = ConversationHistory(messages)
    /\ intent' = LastValue(intent, intent_type)
    /\ next_step' = LastValue(next_step, NextStepFor(intent_type))
    /\ written' = [written EXCEPT !.intent = intent_type,
                                  !.next_step = NextStepFor(intent_type)]
    /\ actions_taken' = OperatorAdd(actions_taken, <<"classify_intent">>)
    /\ executed' = Append(executed, "classify_intent")
    /\ pc' = AfterClassify(next_step')
    /\ UNCHANGED <<runs, user_input, messages, conversation_summary,
                   active_documents, current_response, tools_used,
                   start_actions>>
    /\ UNCHANGED <<weatherVars, toolVars>>

\* Common body of qa_agent, summarization_agent and calculation_agent.
AgentNode(node, kind, schema, called) ==
    /\ pc = node
    /\ LET r == InvokeReactAgent(schema,
                    ChatPromptMessages(kind, user_input, messages), called)
       IN  /\ messages' = AddMessages(messages, r.result.messages)
           /\ current_response' = LastValue(current_response, r.result)
           /\ tools_used' = LastValue(tools_used, r.tools_used)
           /\ written' = [written EXCEPT !.current_response = r.result,
                                         !.tools_used = r.tools_used,
                                         !.next_step = "update_memory"]
    /\ actions_taken' = OperatorAdd(actions_taken, <<node>>)
    /\ next_step' = LastValue(next_step, "update_memory")
    /\ executed' = Append(executed, node)
    /\ pc' = EdgeTarget(node)
    /\ UNCHANGED <<runs, user_input, intent, conversation_summary,
                   active_documents, conversation_history, start_actions>>
    /\ UNCHANGED <<weatherVars, toolVars>>

qa_agent(called) ==
    AgentNode("qa_agent", "qa", "AnswerResponse", called)

summarization_agent(called) ==
    AgentNode("summarization_agent", "summarization",
              "SummarizationResponse", called)

calculation_agent(called) ==
    AgentNode("calculation_agent", "calculation",
              "CalculationResponse", called)

update_memory(response) ==
    /\ pc = "update_memory"
    /\ conversation_summary' = LastValue(conversation_summary, response.summary)
    /\ active_documents' = LastValue(active_documents, response.document_ids)
    /\ next_step' = LastValue(next_step, "end")
    /\ written' = [written EXCEPT !.conversation_summary = response.summary,
                                  !.active_documents = response.document_ids,
                                  !.next_step = "end"]
    /\ actions_taken' = OperatorAdd(actions_taken, <<"update_memory">>)
    /\ executed' = Append(executed, "update_memory")
    /\ pc' = EdgeTarget("update_memory")
    /\ UNCHANGED <<runs, user_input, messages, intent, current_response,
                   tools_used, conversation_history, start_actions>>
    /\ UNCHANGED <<weatherVars, toolVars>>

DoInvoke == \E input \in UserInputs : Invoke(input)
DoClassify == \E t \in IntentTypes : classify_intent(t)
DoQa == \E called \in ToolCalls : qa_agent(called)
DoSummarization == \E called \in ToolCalls : summarization_agent(called)
DoCalculation == \E called \in ToolCalls : calculation_agent(called)
DoUpdateMemory == \E response \in MemoryResponses : update_memory(response)

Next ==
    \/ DoInvoke
    \/ DoClassify
    \/ DoQa
    \/ DoSummarization
    \/ DoCalculation
    \/ DoUpdateMemory

Spec == Init /\ [][Next]_vars

NodeStep ==
    \/ DoClassify
    \/ DoQa
    \/ DoSummarization
    \/ DoCalculation
    \/ DoUpdateMemory

\* Every LLM and agent call returns: a scheduled node eventually executes.
FairSpec == Spec /\ WF_vars(NodeStep)

----------------------------------------------------------------------------
(* The history formatter of classify_intent on arbitrary message lists *)

MessageKinds == {"human", "ai", "tool"}

InitHistory ==
    /\ pc = "history"
    /\ runs = 0
    /\ user_input = Unset
    /\ messages = <<>>
    /\ intent = Unset
    /\ next_step = Unset
    /\ conversation_summary = Unset
    /\ active_documents = <<>>
    /\ current_response = UnsetResponse
    /\ tools_used = <<>>
    /\ actions_taken = <<>>
    /\ conversation_history = <<>>
    /\ executed = <<>>
    /\ start_actions = <<>>
    /\ written = NothingWritten
    /\ WeatherIdle
    /\ ToolsIdle

\* One more message in the stored conversation; its content is its position.
AppendMessage(kind) ==
    /\ pc = "history"
    /\ Len(messages) < MaxHist
    /\ messages' = AddMessages(messages,
                       <<Msg(Len(messages) + 1, kind,
                             ToString(Len(messages) + 1), "")>>)
    /\ UNCHANGED <<pc, runs, user_input, intent, next_step,
                   conversation_summary, active_documents, current_response,
                   tools_used, actions_taken, conversation_history,
                   executed, start_actions, written>>
    /\ UNCHANGED <<weatherVars, toolVars>>

\* Lines 77-91 of classify_intent, applied to the stored conversation.
FormatHistory ==
    /\ pc = "history"
    /\ conversation_history' = ConversationHistory(messages)
    /\ pc' = "formatted"
    /\ UNCHANGED <<runs, user_input, messages, intent, next_step,
                   conversation_summary, active_documents, current_response,
                   tools_used, actions_taken, executed, start_actions,
                   written>>
    /\ UNCHANGED <<weatherVars, toolVars>>

DoAppendMessage == \E kind \in MessageKinds : AppendMessage(kind)

NextHistory ==
    \/ DoAppendMessage
    \/ FormatHistory

SpecHistory == InitHistory /\ [][NextHistory]_vars

----------------------------------------------------------------------------
(* Claims about the workflow graph *)

RunStarted == pc \notin {"idle", "history", "formatted"}

OrderInv ==
    /\ pc = "idle" => executed = <<>>
    /\ Len(executed) <= 3
    /\ Len(executed) >= 1 => executed[1] = "classify_intent"
    /\ Len(executed) >= 2 => executed[2] \in AgentNodes
    /\ Len(executed) >= 3 => executed[3] = "update_memory"
    /\ RunStarted =>
         /\ Len(executed) = 0 <=> pc = "classify_intent"
         /\ Len(executed) = 1 <=> pc \in AgentNodes
         /\ Len(executed) = 1 => pc = next_step
         /\ Len(executed) = 2 <=> pc = "update_memory"
         /\ Len(executed) = 3 <=> pc = END

OrderStep ==
    /\ executed' # executed =>
         \/ executed' = <<>>
         \/ /\ Len(executed') = Len(executed) + 1
            /\ executed'[Len(executed')] = pc
            /\ SubSeq(executed', 1, Len(executed)) = executed
    /\ Len(executed) = 1 /\ Len(executed') = 2 => executed'[2] = next_step

\* C1: every run executes classify_intent, then exactly the one agent node
\* that next_step names after classify_intent, then update_memory, and then
\* ends; node executions happen in no other order.
C1_RunOrder == []OrderInv /\ [][OrderStep]_vars

C1_Witness ==
    /\ pc = END
    /\ executed = <<"classify_intent", "summarization_agent", "update_memory">>

NoRepeat == \A i, j \in 1..Len(executed) : executed[i] = executed[j] => i = j

\* C2: within one run no node executes more than once and at most three
\* nodes execute; when every node call returns, a started run reaches END.
C2_NoCycleTerminates ==
    /\ [](NoRepeat /\ Len(executed) <= 3)
    /\ (pc = "classify_intent") ~> (pc = END)

C2_Witness ==
    /\ pc = END
    /\ runs = 2
    /\ Len(executed) = 3

IntentTable(intent_type) ==
    CASE intent_type = "qa" -> "qa_agent"
      [] intent_type = "summarization" -> "summarization_agent"
      [] intent_type = "calculation" -> "calculation_agent"
      [] OTHER -> "qa_agent"

\* C3: right after classify_intent, next_step is qa_agent for intent qa,
\* summarization_agent for summarization, calculation_agent for calculation
\* and qa_agent for every other intent type, unknown included.
C3_NextStepFromIntent ==
    (RunStarted /\ Len(executed) = 1) =>
        /\ intent \in IntentTypes
        /\ next_step = IntentTable(intent)

C3_Witness ==
    /\ RunStarted
    /\ Len(executed) = 1
    /\ intent = "unknown"
    /\ next_step = "qa_agent"

\* C4: every node appends exactly its own name to actions_taken, so a
\* complete run that started with actions_taken empty ends with
\* actions_taken = [classify_intent, the agent that ran, update_memory].
C4_ActionsTaken ==
    RunStarted =>
        /\ actions_taken = start_actions \o executed
        /\ (pc = END /\ start_actions = <<>>) =>
              /\ Len(actions_taken) = 3
              /\ actions_taken[1] = "classify_intent"
              /\ actions_taken[2] \in AgentNodes
              /\ actions_taken[2] = executed[2]
              /\ actions_taken[3] = "update_memory"

C4_Witness ==
    /\ pc = END
    /\ start_actions = <<>>
    /\ actions_taken = <<"classify_intent", "calculation_agent", "update_memory">>

----------------------------------------------------------------------------
(* Claim about the conversation history *)

WindowStart == IF Len(messages) > 10 THEN Len(messages) - 9 ELSE 1

Spoken == {i \in WindowStart..Len(messages) : messages[i].type \in {"human", "ai"}}

Rank(i) == Cardinality({j \in Spoken : j <= i})

\* C5: the conversation history in the prompt has, for the last 10 messages
\* at most and in their order, one "User:" line per HumanMessage and one
\* "Assistant:" line per AIMessage and nothing else; for an empty message
\* list it is the text "No previous conversation.".
C5_ConversationHistory ==
    pc = "formatted" =>
        IF Len(messages) = 0
        THEN conversation_history = <<"No previous conversation.">>
        ELSE /\ Len(conversation_history) = 3 * Cardinality(Spoken)
             /\ \A i \in Spoken :
                   /\ conversation_history[3 * Rank(i) - 2] =
                         (IF messages[i].type = "human"
                          THEN "User: " ELSE "Assistant: ")
                   /\ conversation_history[3 * Rank(i) - 1] = messages[i].content
                   /\ conversation_history[3 * Rank(i)] = "\n"

C5_Witness ==
    /\ pc = "formatted"
    /\ Len(messages) = 11
    /\ messages[1].type = "human"
    /\ messages[2].type = "ai"
    /\ messages[3].type = "tool"
    /\ messages[11].type = "human"
    /\ Len(conversation_history) = 3 * 4

----------------------------------------------------------------------------
(* get_weather_forecast (course-02, tools.py)                              *)
(*                                                                         *)
(* Numbers with one decimal are kept in tenths.  The random module is a    *)
(* generator state (seed) from which every draw of the call is taken; a    *)
(* uniform draw yields the low end, the middle or the high end of its      *)
(* range.  The fields date and solar_generation_potential_kwh of a daily   *)
(* entry are left out.                                                     *)

MaxDaysArg == 9     \* days arguments range over -MaxDaysArg..MaxDaysArg
MaxStride == 1      \* strides of the random generator range over 0..MaxStride

DaysArgs == (0 - MaxDaysArg)..MaxDaysArg
Locations == {"San Francisco, CA"}
Seeds == [a : 0..11, b : 0..MaxStride]

Abs(x) == IF x < 0 THEN 0 - x ELSE x
Max(x, y) == IF x >= y THEN x ELSE y
Min(x, y) == IF x <= y THEN x ELSE y

\* round(n / d, 0) for d > 0, ties to the even neighbour as Python rounds
RoundDiv(n, d) ==
    LET q == n \div d
        r == n % d
    IN  IF 2 * r < d THEN q
        ELSE IF 2 * r > d THEN q + 1
        ELSE IF q % 2 = 0 THEN q ELSE q + 1

\* weather_types
WeatherKeys == <<"sunny", "partly_cloudy", "cloudy", "rainy">>

IrradianceRange(condition) ==
    CASE condition = "sunny" -> <<800, 1000>>
      [] condition = "partly_cloudy" -> <<400, 700>>
      [] condition = "cloudy" -> <<100, 350>>
      [] condition = "rainy" -> <<50, 150>>

\* The draw made at call site `site` in iteration (day, hour).
Rand(seed, site, day, hour) ==
    (seed.a + seed.b * (site + 13 * (hour + 24 * day))) % 12

\* random.choices(keys, weights) and random.choice(keys): every key has a
\* positive weight, so every key can come out.
Choice(r) == WeatherKeys[(r % 4) + 1]

\* random.uniform(lo, hi) and random.randint(lo, hi), in units of 1 / scale
Uniform(r, lo, hi, scale) == scale * lo + (r % 3) * ((scale * (hi - lo)) \div 2)

\* days = max(1, min(7, days)) without the lower limit
ClampDaysNoFloor(days) == Min(7, days)

\* days = max(1, min(7, days))
ClampDays(days) == Max(1, Min(7, days))

\* 7 * solar_factor
SolarFactor7(hour) == Max(0, 7 - Abs(hour - 13))

\* the plain product, with neither the daylight test nor the clamp
SolarIrradianceUnguarded(hour, base) ==
    RoundDiv(10 * base * (7 - Abs(hour - 13)), 7)

\* solar_irradiance of one hour, in tenths of W/m2
SolarIrradiance(hour, base) ==
    IF 6 <= hour /\ hour <= 20
    THEN RoundDiv(10 * base * SolarFactor7(hour), 7)
    ELSE 0

\* temperature of one hour, in tenths: round(base_temp + 15 * hour_factor, 1)
\* with hour_factor = 1 - abs(hour - 14) / 14 and base_temp in tenths
HourTemperature(hour, base_temp) ==
    RoundDiv(14 * base_temp + 150 * (14 - Abs(hour - 14)), 14)

HourlyCondition(seed, day, hour, day_condition) ==
    IF Rand(seed, 6, day, hour) % 5 # 0
    THEN day_condition
    ELSE Choice(Rand(seed, 7, day, hour))

HourEntry(seed, day, hour, day_condition) ==
    LET condition == HourlyCondition(seed, day, hour, day_condition)
        range == IrradianceRange(condition)
        base == Uniform(Rand(seed, 8, day, hour), range[1], range[2], 1)
    IN  [day |-> day,
         hour |-> hour,
         temperature_c |->
             HourTemperature(hour, Uniform(Rand(seed, 5, day, hour), 10, 14, 10)),
         condition |-> condition,
         solar_irradiance |-> SolarIrradiance(hour, base),
         humidity |-> Uniform(Rand(seed, 9, day, hour), 35, 85, 1),
         wind_speed |-> Uniform(Rand(seed, 10, day, hour), 3, 20, 10)]

\* the hours in which the code evaluates solar_factor
SolarLogEntry(day, hour) ==
    IF 6 <= hour /\ hour <= 20
    THEN <<[day |-> day, hour |-> hour, solar_factor7 |-> SolarFactor7(hour)]>>
    ELSE <<>>

\* range(24) cut one short
HoursOfDayShort == 24 - 1

\* for hour in range(24)
HoursOfDay == 24

RECURSIVE HourLoop(_, _, _, _)
\* the inner loop from `hour` on: the hourly entries it appends and the
\* solar factors it computes, in order
HourLoop(seed, day, hour, day_condition) ==
    IF hour >= HoursOfDay THEN [hourly |-> <<>>, log |-> <<>>]
    ELSE LET rest == HourLoop(seed, day, hour + 1, day_condition)
         IN  [hourly |-> <<HourEntry(seed, day, hour, day_condition)>>
                         \o rest.hourly,
              log |-> SolarLogEntry(day, hour) \o rest.log]

\* Daily summary; rounding the largest (smallest) temperature of the day is
\* taking the largest (smallest) rounded one.
DailyEntry(day_hourly, day, day_condition) ==
    LET temps == {day_hourly[k].temperature_c : k \in 1..Len(day_hourly)}
    IN  [day |-> day,
         condition |-> day_condition,
         high_temp_c |-> CHOOSE t \in temps : \A u \in temps : u <= t,
         low_temp_c |-> CHOOSE t \in temps : \A u \in temps : t <= u]

RECURSIVE DayLoop(_, _, _)
\* the outer loop from `day` on: everything it appends, in order
DayLoop(seed, day, days) ==
    IF day >= days THEN [hourly |-> <<>>, daily |-> <<>>, log |-> <<>>]
    ELSE LET day_condition == Choice(Rand(seed, 4, day, 0))
             inner == HourLoop(seed, day, 0, day_condition)
             rest == DayLoop(seed, day + 1, days)
         IN  [hourly |-> inner.hourly \o rest.hourly,
              daily |-> <<DailyEntry(inner.hourly, day, day_condition)>>
                        \o rest.daily,
              log |-> inner.log \o rest.log]

\* The whole function: the returned dictionary and the solar factors used.
WeatherForecast(location, days_in, seed) ==
    LET days == ClampDays(days_in)
        loops == DayLoop(seed, 0, days)
    IN  [forecast |->
            [location |-> location,
             forecast_days |-> days,
             current |->
                [temperature_c |-> Uniform(Rand(seed, 1, 0, 0), 15, 28, 10),
                 condition |-> Choice(Rand(seed, 0, 0, 0)),
                 humidity |-> Uniform(Rand(seed, 2, 0, 0), 40, 80, 1),
                 wind_speed |-> Uniform(Rand(seed, 3, 0, 0), 5, 25, 10)],
             hourly |-> loops.hourly,
             daily |-> loops.daily],
         log |-> loops.log]

InitWeather ==
    /\ pc = "no_forecast"
    /\ runs = 0
    /\ user_input = Unset
    /\ messages = <<>>
    /\ intent = Unset
    /\ next_step = Unset
    /\ conversation_summary = Unset
    /\ active_documents = <<>>
    /\ current_response = UnsetResponse
    /\ tools_used = <<>>
    /\ actions_taken = <<>>
    /\ conversation_history = <<>>
    /\ executed = <<>>
    /\ start_actions = <<>>
    /\ written = NothingWritten
    /\ WeatherIdle
    /\ ToolsIdle

\* One call.  The function keeps no state between calls, so a behaviour
\* makes a single call.
get_weather_forecast(location, days, seed) ==
    /\ pc = "no_forecast"
    /\ LET r == WeatherForecast(location, days, seed)
       IN  /\ forecast' = r.forecast
           /\ solar_log' = r.log
    /\ days_arg' = days
    /\ pc' = "forecast"
    /\ UNCHANGED <<runs, user_input, messages, intent, next_step,
                   conversation_summary, active_documents, current_response,
                   tools_used, actions_taken, conversation_history,
                   executed, start_actions, written, prices>>
    /\ UNCHANGED toolVars

----------------------------------------------------------------------------
(* get_electricity_prices (course-02, tools.py)                            *)
(*                                                                         *)
(* Rates are kept in thousandths of a dollar.                              *)

\* the date argument: None, or a date string
DateArgs == {"None", "2024-06-01"}

\* datetime.now().strftime("%Y-%m-%d")
Today == "today"

Range(a, b) == a..(b - 1)

\* the peak tier ending one hour early: range(16, 20)
PricingTiersShortPeak ==
    <<[name |-> "off_peak", rate |-> 100, hours |-> Range(0, 6) \cup Range(23, 24)],
      [name |-> "partial_peak", rate |-> 150,
       hours |-> Range(6, 16) \cup Range(21, 23)],
      [name |-> "peak", rate |-> 250, hours |-> Range(16, 20)]>>

\* pricing_tiers, in the order of the dictionary
PricingTiers ==
    <<[name |-> "off_peak", rate |-> 100, hours |-> Range(0, 6) \cup Range(23, 24)],
      [name |-> "partial_peak", rate |-> 150,
       hours |-> Range(6, 16) \cup Range(21, 23)],
      [name |-> "peak", rate |-> 250, hours |-> Range(16, 21)]>>

\* The tier loop with its break: the first tier listing the hour, or the
\* default partial_peak at 0.15.
TierOf(hour) ==
    LET hits == {i \in 1..Len(PricingTiers) : hour \in PricingTiers[i].hours}
    IN  IF hits = {}
        THEN [period |-> "partial_peak", rate |-> 150]
        ELSE LET first == CHOOSE i \in hits : \A j \in hits : i <= j
             IN  [period |-> PricingTiers[first].name,
                  rate |-> PricingTiers[first].rate]

RateEntry(seed, hour) ==
    LET tier == TierOf(hour)
        demand_charge == IF tier.period = "peak" THEN 50 ELSE 0
        rate_variation == Uniform(Rand(seed, 11, 0, hour), 0 - 10, 10, 1)
        final_rate == tier.rate + rate_variation
    IN  [hour |-> hour,
         rate |-> final_rate,
         period |-> tier.period,
         demand_charge |-> demand_charge,
         total_rate |-> final_rate + demand_charge]

RECURSIVE RateLoop(_, _)
\* for hour in range(24), from `hour` on: the entries appended, in order
RateLoop(seed, hour) ==
    IF hour >= 24 THEN <<>>
    ELSE <<RateEntry(seed, hour)>> \o RateLoop(seed, hour + 1)

ElectricityPrices(date, seed) ==
    [date |-> IF date = "None" THEN Today ELSE date,
     pricing_type |-> "time_of_use",
     currency |-> "USD",
     unit |-> "per_kWh",
     hourly_rates |-> RateLoop(seed, 0),
     summary |-> [off_peak_rate |-> 100,
                  partial_peak_rate |-> 150,
                  peak_rate |-> 250,
                  off_peak_hours |-> "11 PM - 6 AM",
                  partial_peak_hours |-> "6 AM - 4 PM, 9 PM - 11 PM",
                  peak_hours |-> "4 PM - 9 PM"]]

\* One call; like the forecast, the function keeps no state between calls.
get_electricity_prices(date, seed) ==
    /\ pc = "no_forecast"
    /\ prices' = ElectricityPrices(date, seed)
    /\ pc' = "prices"
    /\ UNCHANGED <<runs, user_input, messages, intent, next_step,
                   conversation_summary, active_documents, current_response,
                   tools_used, actions_taken, conversation_history,
                   executed, start_actions, written, forecast, days_arg,
                   solar_log>>
    /\ UNCHANGED toolVars

DoForecast ==
    \E location \in Locations, days \in DaysArgs, seed \in Seeds :
        get_weather_forecast(location, days, seed)

DoPrices == \E date \in DateArgs, seed \in Seeds : get_electricity_prices(date, seed)

NextWeather ==
    \/ DoForecast
    \/ DoPrices

SpecWeather == InitWeather /\ [][NextWeather]_vars

----------------------------------------------------------------------------
(* Claims about get_weather_forecast *)

\* C6: for every integer days argument the returned forecast_days is
\* max(1, min(7, days)): 1 for days below 1, 7 for days above 7, days itself
\* in between.
C6_DaysClamped ==
    pc = "forecast" =>
        /\ forecast.forecast_days \in 1..7
        /\ days_arg < 1 => forecast.forecast_days = 1
        /\ days_arg > 7 => forecast.forecast_days = 7
        /\ days_arg \in 1..7 => forecast.forecast_days = days_arg

C6_Witness ==
    /\ pc = "forecast"
    /\ days_arg = 0
    /\ forecast.forecast_days = 1

\* C7: a returned forecast has 24 * forecast_days hourly entries ordered by
\* (day, hour) with hour running 0..23 inside each day, and forecast_days
\* daily entries with day = 0, 1, ..., forecast_days - 1 in order.
C7_ForecastShape ==
    pc = "forecast" =>
        /\ Len(forecast.hourly) = 24 * forecast.forecast_days
        /\ Len(forecast.daily) = forecast.forecast_days
        /\ Len(forecast.hourly) > 0 =>
              /\ forecast.hourly[1].day = 0
              /\ forecast.hourly[1].hour = 0
        /\ \A k \in 1..(Len(forecast.hourly) - 1) :
              LET e == forecast.hourly[k]
                  f == forecast.hourly[k + 1]
              IN  /\ e.hour \in 0..23
                  /\ IF e.hour < 23
                     THEN f.day = e.day /\ f.hour = e.hour + 1
                     ELSE f.day = e.day + 1 /\ f.hour = 0
        /\ \A d \in 1..Len(forecast.daily) : forecast.daily[d].day = d - 1

C7_Witness ==
    /\ pc = "forecast"
    /\ forecast.forecast_days = 3
    /\ Len(forecast.hourly) = 72
    /\ forecast.hourly[72].day = 2
    /\ forecast.hourly[72].hour = 23
    /\ Len(forecast.daily) = 3

\* C8: in a returned forecast every hourly entry whose hour is below 6 or
\* above 20 has solar_irradiance 0, and no solar_irradiance is negative.
C8_SolarOnlyInDaylight ==
    pc = "forecast" =>
        \A k \in 1..Len(forecast.hourly) :
            LET e == forecast.hourly[k]
            IN  /\ e.solar_irradiance >= 0
                /\ (e.hour < 6 \/ e.hour > 20) => e.solar_irradiance = 0

C8_Witness ==
    /\ pc = "forecast"
    /\ \E k \in 1..Len(forecast.hourly) :
          /\ forecast.hourly[k].hour = 3
          /\ forecast.hourly[k].solar_irradiance = 0
    /\ \E k \in 1..Len(forecast.hourly) :
          /\ forecast.hourly[k].hour = 13
          /\ forecast.hourly[k].solar_irradiance > 0

\* C9: solar output peaks at noon: among the hours of a day the solar factor
\* multiplying the base irradiance is greatest at hour 12.
C9_SolarPeakAtNoon ==
    pc = "forecast" =>
        \A i, j \in 1..Len(solar_log) :
            (solar_log[i].day = solar_log[j].day /\ solar_log[i].hour = 12)
                => solar_log[j].solar_factor7 <= solar_log[i].solar_factor7

\* C10: the current.condition of a returned forecast is one of sunny,
\* partly_cloudy and cloudy.
C10_CurrentCondition ==
    pc = "forecast" =>
        forecast.current.condition \in {"sunny", "partly_cloudy", "cloudy"}

----------------------------------------------------------------------------
(* Claim about get_electricity_prices *)

\* the hours of "11 PM - 6 AM", "6 AM - 4 PM, 9 PM - 11 PM" and "4 PM - 9 PM"
SummaryWindow(hour) ==
    IF hour = 23 \/ hour \in 0..5 THEN "off_peak"
    ELSE IF hour \in 6..15 \/ hour \in 21..22 THEN "partial_peak"
    ELSE "peak"

\* C11: get_electricity_prices returns 24 hourly_rates entries with hour
\* 0..23 ascending; each period is the window the summary reports: off_peak
\* for 23 and 0-5, partial_peak for 6-15 and 21-22, peak for 16-20; and every
\* hour is listed by exactly one pricing tier.
C11_HourlyRates ==
    pc = "prices" =>
        /\ Len(prices.hourly_rates) = 24
        /\ \A k \in 1..Len(prices.hourly_rates) :
              /\ prices.hourly_rates[k].hour = k - 1
              /\ prices.hourly_rates[k].period = SummaryWindow(k - 1)
              /\ Cardinality({i \in 1..Len(PricingTiers) :
                                 (k - 1) \in PricingTiers[i].hours}) = 1
        /\ prices.summary.off_peak_hours = "11 PM - 6 AM"
        /\ prices.summary.partial_peak_hours = "6 AM - 4 PM, 9 PM - 11 PM"
        /\ prices.summary.peak_hours = "4 PM - 9 PM"

C11_Witness ==
    /\ pc = "prices"
    /\ Len(prices.hourly_rates) = 24
    /\ prices.hourly_rates[24].period = "off_peak"
    /\ prices.hourly_rates[21].period = "peak"
    /\ prices.hourly_rates[22].period = "partial_peak"

----------------------------------------------------------------------------
(* The CultPass support tools (course-03, agentic/tools)                   *)
(*                                                                         *)
(* Every tool opens a session, queries, and closes it; only a commit       *)
(* writes to the database.  Times are small integers.                      *)

MaxMessages == 3    \* rows the ticket_messages table may hold

Emails == {"ana@x.org", "bob@x.org"}
UserIds == {"u1", "u404"}
ExperienceIds == {"e1", "e404"}
LocationArgs == {NoneValue, "paulo", "Lisbon"}
PremiumArgs == {NoneValue, "True", "False"}
Times == {0, 2}
Queries == {<<"password">>, <<"reset", "login">>, <<"refund">>}
AccountIds == {"cultpass"}
ArticleIds == {"a1", "a404"}
TicketIds == {"t1", "t2", "t404"}
StatusArgs == {"resolved", "escalated"}
IssueTypeArgs == {NoneValue, "billing"}
ContentArgs == {"note"}
RoleArgs == {"ai"}

\* location.ilike("%arg%"): the argument occurs in the location, any case
ILike == {<<"paulo", "Sao Paulo">>}

\* query.filter(...).all() is SelectSeq on the table.

\* The rows ordered by an integer key, equal keys in table order.
OrderBy(rows, field, descending) ==
    LET before(i, j) ==
            IF rows[i][field] = rows[j][field] THEN i < j
            ELSE IF descending THEN rows[i][field] > rows[j][field]
            ELSE rows[i][field] < rows[j][field]
        place(i) == 1 + Cardinality({j \in 1..Len(rows) : before(j, i)})
    IN  [k \in 1..Len(rows) |-> rows[CHOOSE i \in 1..Len(rows) : place(i) = k]]

UserInfo(db, user_email) ==
    LET found == SelectSeq(db.users, LAMBDA u : u.email = user_email)
    IN  IF found # <<>>
        THEN [user_id |-> found[1].user_id, full_name |-> found[1].full_name,
              email |-> found[1].email, is_blocked |-> found[1].is_blocked]
        ELSE [error |-> "User not found"]

UserSubscription(db, user_id) ==
    LET found == SelectSeq(db.subscriptions, LAMBDA x : x.user_id = user_id)
    IN  IF found # <<>>
        THEN found[1]
        ELSE [error |-> "No subscription found"]

UserReservations(db, user_id) ==
    LET reservations == SelectSeq(db.reservations, LAMBDA x : x.user_id = user_id)
        line(res) ==
            LET experience == SelectSeq(db.experiences,
                                   LAMBDA e : e.experience_id = res.experience_id)
            IN  [reservation_id |-> res.reservation_id,
                 experience_id |-> res.experience_id,
                 experience_title |->
                     IF experience # <<>> THEN experience[1].title ELSE "Unknown",
                 experience_location |->
                     IF experience # <<>> THEN experience[1].location ELSE "Unknown",
                 status |-> res.status]
        results == [k \in 1..Len(reservations) |-> line(reservations[k])]
    IN  IF results # <<>> THEN results
        ELSE <<[message |-> "No reservations found for this user"]>>

AvailableExperiences(db, location, is_premium, now) ==
    LET keep(e) ==
            /\ e.when >= now
            /\ location # NoneValue => <<location, e.location>> \in ILike
            /\ is_premium # NoneValue => e.is_premium = (is_premium = "True")
            /\ e.slots_available > 0
        results == OrderBy(SelectSeq(db.experiences, keep), "when", FALSE)
    IN  IF results # <<>> THEN results
        ELSE <<[message |-> "No experiences found matching your criteria"]>>

ExperienceDetails(db, experience_id, now) ==
    LET found == SelectSeq(db.experiences, LAMBDA e : e.experience_id = experience_id)
    IN  IF found # <<>>
        THEN [experience |-> found[1], is_upcoming |-> found[1].when >= now]
        ELSE [error |-> "Experience not found"]

\* relevance of one article: 3 per term in the title, 1 in the content, 2 in
\* the tags
Relevance(article, query) ==
    LET hits(words) == Cardinality({k \in 1..Len(query) : query[k] \in words})
        \* a repeated term counts each time it occurs in the query
    IN  3 * hits(article.title) + hits(article.content) + 2 * hits(article.tags)

First5(rows) == IF Len(rows) <= 5 THEN rows ELSE SubSeq(rows, 1, 5)

SearchKnowledgeBase(db, query, account_id) ==
    LET articles == SelectSeq(db.knowledge, LAMBDA a : a.account_id = account_id)
        scored == [k \in 1..Len(articles) |->
                      [article_id |-> articles[k].article_id,
                       title |-> articles[k].title,
                       content |-> articles[k].content,
                       tags |-> articles[k].tags,
                       relevance_score |-> Relevance(articles[k], query)]]
        results == SelectSeq(scored, LAMBDA r : r.relevance_score > 0)
    IN  First5(OrderBy(results, "relevance_score", TRUE))

ArticleById(db, article_id) ==
    LET found == SelectSeq(db.knowledge, LAMBDA a : a.article_id = article_id)
    IN  IF found # <<>>
        THEN [article_id |-> found[1].article_id, title |-> found[1].title,
              content |-> found[1].content, tags |-> found[1].tags]
        ELSE [error |-> "Article not found"]

TicketInfo(db, ticket_id) ==
    LET ticket == SelectSeq(db.tickets, LAMBDA t : t.ticket_id = ticket_id)
        metadata == SelectSeq(db.ticket_metadata, LAMBDA x : x.ticket_id = ticket_id)
        msgs == SelectSeq(db.ticket_messages, LAMBDA x : x.ticket_id = ticket_id)
        user == IF ticket = <<>> THEN <<>>
                ELSE SelectSeq(db.users, LAMBDA u : u.user_id = ticket[1].user_id)
    IN  IF ticket = <<>>
        THEN [error |-> "Ticket not found"]
        ELSE [ticket_id |-> ticket[1].ticket_id,
              channel |-> ticket[1].channel,
              user |-> IF user # <<>> THEN user[1].user_id ELSE NoneValue,
              status |-> IF metadata # <<>> THEN metadata[1].status ELSE NoneValue,
              main_issue_type |->
                  IF metadata # <<>> THEN metadata[1].main_issue_type ELSE NoneValue,
              messages |-> [k \in 1..Len(msgs) |->
                               [role |-> msgs[k].role, content |-> msgs[k].content]]]

\* metadata.status = status; if issue_type: metadata.main_issue_type = ...
\* on the first metadata row of the ticket
WithStatus(db, ticket_id, status, issue_type) ==
    LET hit == {i \in 1..Len(db.ticket_metadata) :
                   db.ticket_metadata[i].ticket_id = ticket_id}
        first == CHOOSE i \in hit : \A j \in hit : i <= j
    IN  [db EXCEPT !.ticket_metadata[first] =
            [@ EXCEPT !.status = status,
                      !.main_issue_type =
                          IF issue_type # NoneValue THEN issue_type ELSE @]]

\* session.add(TicketMessage(...)) with a fresh message id
WithMessage(db, ticket_id, content, role) ==
    [db EXCEPT !.ticket_messages =
        Append(@, [message_id |-> Len(@) + 1, ticket_id |-> ticket_id,
                   role |-> role, content |-> content])]

InitTools ==
    /\ pc = "tools"
    /\ runs = 0
    /\ user_input = Unset
    /\ messages = <<>>
    /\ intent = Unset
    /\ next_step = Unset
    /\ conversation_summary = Unset
    /\ active_documents = <<>>
    /\ current_response = UnsetResponse
    /\ tools_used = <<>>
    /\ actions_taken = <<>>
    /\ conversation_history = <<>>
    /\ executed = <<>>
    /\ start_actions = <<>>
    /\ written = NothingWritten
    /\ WeatherIdle
    /\ ToolsIdle

\* A tool that queries and closes its session: nothing is committed.
ReadOnly(name, result) ==
    /\ pc = "tools"
    /\ last_call' = name
    /\ tool_result' = result
    /\ UNCHANGED <<cultpass, udahub>>
    /\ UNCHANGED <<graphVars, weatherVars>>

get_user_info(user_email) ==
    ReadOnly("get_user_info", UserInfo(cultpass, user_email))

get_user_subscription(user_id) ==
    ReadOnly("get_user_subscription", UserSubscription(cultpass, user_id))

get_user_reservations(user_id) ==
    ReadOnly("get_user_reservations", UserReservations(cultpass, user_id))

get_available_experiences(location, is_premium, now) ==
    ReadOnly("get_available_experiences",
             AvailableExperiences(cultpass, location, is_premium, now))

get_experience_details(experience_id, now) ==
    ReadOnly("get_experience_details",
             ExperienceDetails(cultpass, experience_id, now))

search_knowledge_base(query, account_id) ==
    ReadOnly("search_knowledge_base",
             SearchKnowledgeBase(udahub, query, account_id))

get_article_by_id(article_id) ==
    ReadOnly("get_article_by_id", ArticleById(udahub, article_id))

\* a lookup that also marks the ticket as being handled, and commits
get_ticket_info_marking(ticket_id) ==
    /\ pc = "tools"
    /\ last_call' = "get_ticket_info"
    /\ tool_result' = TicketInfo(udahub, ticket_id)
    /\ udahub' = IF \E i \in 1..Len(udahub.ticket_metadata) :
                        udahub.ticket_metadata[i].ticket_id = ticket_id
                 THEN WithStatus(udahub, ticket_id, "in_progress", NoneValue)
                 ELSE udahub
    /\ UNCHANGED cultpass
    /\ UNCHANGED <<graphVars, weatherVars>>

get_ticket_info(ticket_id) ==
    ReadOnly("get_ticket_info", TicketInfo(udahub, ticket_id))

\* committed = FALSE: session.commit() raised and the except branch rolled
\* the session back.
update_ticket_status(ticket_id, status, issue_type, committed) ==
    /\ pc = "tools"
    /\ last_call' = "update_ticket_status"
    /\ LET found == \E i \in 1..Len(udahub.ticket_metadata) :
                       udahub.ticket_metadata[i].ticket_id = ticket_id
       IN  IF ~found
           THEN /\ tool_result' = [error |-> "Ticket metadata not found"]
                /\ UNCHANGED udahub
           ELSE IF committed
           THEN /\ udahub' = WithStatus(udahub, ticket_id, status, issue_type)
                /\ tool_result' =
                       [success |-> TRUE, ticket_id |-> ticket_id,
                        new_status |-> status,
                        issue_type |->
                            IF issue_type # NoneValue THEN issue_type
                            ELSE TicketInfo(udahub', ticket_id).main_issue_type]
           ELSE /\ tool_result' = [error |-> "Failed to update ticket"]
                /\ UNCHANGED udahub
    /\ UNCHANGED cultpass
    /\ UNCHANGED <<graphVars, weatherVars>>

add_ticket_message(ticket_id, content, role, committed) ==
    /\ pc = "tools"
    /\ Len(udahub.ticket_messages) < MaxMessages
    /\ last_call' = "add_ticket_message"
    /\ LET found == \E i \in 1..Len(udahub.tickets) :
                       udahub.tickets[i].ticket_id = ticket_id
       IN  IF ~found
           THEN /\ tool_result' = [error |-> "Ticket not found"]
                /\ UNCHANGED udahub
           ELSE IF committed
           THEN /\ udahub' = WithMessage(udahub, ticket_id, content, role)
                /\ tool_result' =
                       [success |-> TRUE,
                        message_id |-> Len(udahub.ticket_messages) + 1,
                        ticket_id |-> ticket_id]
           ELSE /\ tool_result' = [error |-> "Failed to add message"]
                /\ UNCHANGED udahub
    /\ UNCHANGED cultpass
    /\ UNCHANGED <<graphVars, weatherVars>>

DoUserInfo == \E e \in Emails : get_user_info(e)
DoUserSubscription == \E u \in UserIds : get_user_subscription(u)
DoUserReservations == \E u \in UserIds : get_user_reservations(u)
DoAvailableExperiences ==
    \E l \in LocationArgs, p \in PremiumArgs, now \in Times :
        get_available_experiences(l, p, now)
DoExperienceDetails ==
    \E e \in ExperienceIds, now \in Times : get_experience_details(e, now)
DoSearchKnowledgeBase ==
    \E q \in Queries, a \in AccountIds : search_knowledge_base(q, a)
DoArticleById == \E a \in ArticleIds : get_article_by_id(a)
DoTicketInfo == \E t \in TicketIds : get_ticket_info(t)
DoUpdateTicketStatus ==
    \E t \in TicketIds, st \in StatusArgs, it \in IssueTypeArgs, ok \in BOOLEAN :
        update_ticket_status(t, st, it, ok)
DoAddTicketMessage ==
    \E t \in TicketIds, c \in ContentArgs, r \in RoleArgs, ok \in BOOLEAN :
        add_ticket_message(t, c, r, ok)

NextTools ==
    \/ DoUserInfo
    \/ DoUserSubscription
    \/ DoUserReservations
    \/ DoAvailableExperiences
    \/ DoExperienceDetails
    \/ DoSearchKnowledgeBase
    \/ DoArticleById
    \/ DoTicketInfo
    \/ DoUpdateTicketStatus
    \/ DoAddTicketMessage

SpecTools == InitTools /\ [][NextTools]_vars

----------------------------------------------------------------------------
(* Claim about the support tools *)

LookupTools ==
    {"get_user_info", "get_user_subscription", "get_user_reservations",
     "get_available_experiences", "get_experience_details",
     "search_knowledge_base", "get_article_by_id", "get_ticket_info"}

\* the primary keys of a table
Keys(table, field) == {table[i][field] : i \in 1..Len(table)}

NothingDeleted ==
    /\ \A t \in {"users", "subscriptions", "reservations", "experiences"} :
          Len(cultpass'[t]) >= Len(cultpass[t])
    /\ Keys(cultpass.users, "user_id")
          \subseteq Keys(cultpass'.users, "user_id")
    /\ Keys(cultpass.subscriptions, "subscription_id")
          \subseteq Keys(cultpass'.subscriptions, "subscription_id")
    /\ Keys(cultpass.reservations, "reservation_id")
          \subseteq Keys(cultpass'.reservations, "reservation_id")
    /\ Keys(cultpass.experiences, "experience_id")
          \subseteq Keys(cultpass'.experiences, "experience_id")
    /\ Keys(udahub.users, "user_id")
          \subseteq Keys(udahub'.users, "user_id")
    /\ Keys(udahub.tickets, "ticket_id")
          \subseteq Keys(udahub'.tickets, "ticket_id")
    /\ Keys(udahub.ticket_metadata, "ticket_id")
          \subseteq Keys(udahub'.ticket_metadata, "ticket_id")
    /\ Keys(udahub.ticket_messages, "message_id")
          \subseteq Keys(udahub'.ticket_messages, "message_id")
    /\ Keys(udahub.knowledge, "article_id")
          \subseteq Keys(udahub'.knowledge, "article_id")

ToolFrame ==
    /\ last_call' \in LookupTools => (cultpass' = cultpass /\ udahub' = udahub)
    /\ (cultpass' # cultpass \/ udahub' # udahub) =>
          last_call' \in {"update_ticket_status", "add_ticket_message"}
    /\ NothingDeleted

\* C12: a call of a lookup tool leaves both databases as they were; only
\* update_ticket_status and add_ticket_message change stored data; and no
\* call removes a record.
C12_LookupsOnlyRead == [][ToolFrame]_vars

C12_Witness ==
    /\ pc = "tools"
    /\ last_call = "get_ticket_info"
    /\ Len(udahub.ticket_messages) = 2
    /\ udahub.ticket_metadata[1].status = "resolved"
    /\ udahub.ticket_metadata[1].main_issue_type = "billing"
    /\ tool_result.status = "resolved"
    /\ Len(tool_result.messages) = 2

----------------------------------------------------------------------------
(* Claim about repeated runs on one thread *)

\* C13: after n runs on the same thread, none of whose inputs sets
\* actions_taken, actions_taken has 3n entries, three more per run, while
\* intent, next_step, conversation_summary, active_documents,
\* current_response and tools_used hold the values the last run wrote.
C13_RunsOnOneThread ==
    (RunStarted /\ pc = END) =>
        /\ Len(actions_taken) = 3 * runs
        /\ Len(actions_taken) = Len(start_actions) + 3
        /\ intent = written.intent
        /\ next_step = written.next_step
        /\ next_step = "end"
        /\ conversation_summary = written.conversation_summary
        /\ active_documents = written.active_documents
        /\ current_response = written.current_response
        /\ tools_used = written.tools_used

C13_Witness ==
    /\ pc = END
    /\ runs = 3
    /\ Len(actions_taken) = 9
    /\ actions_taken[2] = "summarization_agent"
    /\ actions_taken[5] = "qa_agent"
    /\ actions_taken[8] = "calculation_agent"
    /\ intent = "calculation"
    /\ current_response.structured_response = "CalculationResponse"
    /\ conversation_summary = "summary_a"

====
